---- MODULE Spec2Model ----
(***************************************************************************)
(* Batched transition-based parsing readers (syntaxnet/neurosis             *)
(* reader_ops.cc): ParsingReader::Compute with its two subclasses           *)
(* GoldParseReader and DecodedParseReader.                                  *)
(*                                                                          *)
(* One step (Compute) of a reader is modelled phase by phase, in program    *)
(* order, for every caller: MutexLock, PerformActions, the advance pass,    *)
(* the rewind/refill block, and the outputs.  The transition system, the    *)
(* parser state and the sentence batch live outside reader_ops.cc; they     *)
(* are modelled from the design document (arc-standard, unlabelled).        *)
(***************************************************************************)
EXTENDS Integers, Sequences, FiniteSets, TLC

\* ------------------------------------------------------------------ bounds
MaxCorpus == 3       \* longest corpus, in sentences
MaxBatch == 2        \* largest batch_size attribute
MaxEpochs == 3       \* no new step is started once num_epochs_ reaches this
MaxCallers == 2      \* concurrent callers of Compute in SpecMT
MaxCorpusMT == 1     \* longest corpus in SpecMT
MaxCallsMT == 3      \* Compute calls started in SpecMT
MaxReaders == 2      \* ParsingReader instances in SpecStore
MaxEmbeddings == 2   \* WordEmbeddingInitializer::Compute calls in SpecStore
MaxFeatureGroups == 2  \* feature groups (embedding spaces) of the extractor
MaxAllocFailures == 1  \* steps in which allocate_output fails
MaxCorpusAlloc == 1  \* longest corpus on which allocate_output fails

\* ------------------------------------------------------- sentences, corpus
\* A sentence: gold[i] is the reference head of token i (0 is the root),
\* scored[i] is PunctuationUtil::ScoreToken of token i under scoring_type_.
EmptySentence == [gold |-> <<>>, scored |-> <<>>]
OneToken == [gold |-> <<0>>, scored |-> <<TRUE>>]
TwoTokens == [gold |-> <<2, 0>>, scored |-> <<TRUE, FALSE>>]
SentenceKinds == {EmptySentence, OneToken, TwoTokens}

Corpora == UNION {[1..n -> SentenceKinds] : n \in 1..MaxCorpus}

\* ----------------------------------------- arc-standard transition system
SHIFT == 0
LEFT_ARC == 1
RIGHT_ARC == 2
NumActions == 3
Actions == 0..(NumActions - 1)

Unset == -1          \* head of a token that has no inferred arc yet
Root == 0

\* states_[i] == nullptr
NullState == [sent |-> 0, stack |-> <<>>, next |-> 0, heads |-> <<>>]

NumTokens(c, s) == Len(c[s.sent].gold)
GoldHead(c, s, tok) == IF tok = Root THEN Unset ELSE c[s.sent].gold[tok]
EndOfInput(c, s) == s.next > NumTokens(c, s)
StackSize(s) == Len(s.stack)
\* Stack(0) is the top of the stack, Stack(1) the one below it.
Stack(s, k) == s.stack[Len(s.stack) - k]

\* new ParserState(sentence, NewTransitionState(true), label_map_): the
\* root is on the stack, the first token is next in the input.
NewParserState(c, k) ==
    [sent |-> k, stack |-> <<Root>>, next |-> 1,
     heads |-> [t \in 1..Len(c[k].gold) |-> Unset]]

IsFinalState(c, s) == EndOfInput(c, s) /\ StackSize(s) < 2

IsAllowedAction(c, action, s) ==
    CASE action = SHIFT -> ~EndOfInput(c, s)
      [] action = LEFT_ARC -> StackSize(s) > 2
      [] action = RIGHT_ARC -> StackSize(s) > 1
      [] OTHER -> FALSE

\* The state after an allowed action.
PerformAction(c, action, s) ==
    CASE action = SHIFT ->
           [s EXCEPT !.stack = Append(s.stack, s.next), !.next = s.next + 1]
      [] action = LEFT_ARC ->
           \* the token below the top becomes a child of the top
           [s EXCEPT !.heads[Stack(s, 1)] = Stack(s, 0),
                     !.stack = Append(SubSeq(s.stack, 1, Len(s.stack) - 2),
                                      Stack(s, 0))]
      [] action = RIGHT_ARC ->
           \* the top becomes a child of the token below it
           [s EXCEPT !.heads[Stack(s, 0)] = Stack(s, 1),
                     !.stack = SubSeq(s.stack, 1, Len(s.stack) - 1)]

\* No token still in the input has `tok` as its gold head.
DoneChildrenRightOf(c, s, tok) ==
    \A t \in 1..NumTokens(c, s) : t >= s.next => GoldHead(c, s, t) # tok

\* The oracle, on a state that is not final.
GetNextGoldAction(c, s) ==
    IF StackSize(s) < 2 THEN SHIFT
    ELSE IF GoldHead(c, s, Stack(s, 0)) = Stack(s, 1)
            /\ DoneChildrenRightOf(c, s, Stack(s, 0)) THEN RIGHT_ARC
    ELSE IF GoldHead(c, s, Stack(s, 1)) = Stack(s, 0) THEN LEFT_ARC
    ELSE SHIFT

\* The oracle is undefined on a final state: any action may come back.
GoldActionChoices(c, s) ==
    IF IsFinalState(c, s) THEN Actions ELSE {GetNextGoldAction(c, s)}

IsTokenCorrect(c, s, tok) == s.heads[tok] = GoldHead(c, s, tok)
ScoreToken(c, s, tok) == c[s.sent].scored[tok]

\* documents_.emplace_back(state->sentence()); AddParseToDocument(&back)
AnnotatedDocument(s) == [sent |-> s.sent, heads |-> s.heads]

\* ------------------------------------------------------------------ state
VARIABLES
    corpus,            \* the sentences the corpus reader yields, in order
    policy,            \* "gold": GoldParseReader, "decoded": DecodedParseReader
    max_batch_size_,   \* attribute batch_size
    ncallers,          \* how many callers run Compute on this kernel
    cursor,            \* SentenceBatch: sentences read since the last Rewind
    sentences_,        \* SentenceBatch: slot -> corpus index, 0 when empty
    states_,           \* slot -> ParserState, NullState when nullptr
    workspaces_,       \* slot -> corpus index the workspace was preprocessed for
    num_epochs_,
    mu_,               \* 0 when free, else the caller holding it
    num_tokens_,
    num_correct_,
    documents_,
    pc,                \* caller -> position in Compute
    out,               \* caller -> outputs of its last completed Compute
    failed,            \* the process died on a fatal check
    performed,         \* history: PerformAction calls of the running step
    taken,             \* history: (slot, action) applied by the last action pass
    finalized,         \* history: states made final by the last action pass
    loads,             \* history: corpus indices loaded since the last Rewind
    prev_loads,        \* history: loads of the traversal before the last Rewind
    retired,           \* history: sentences dropped from a slot so far
    ncalls,            \* history: Compute calls started, counted in SpecMT only
    last_step,         \* history: caller of the last step that returned, 0 if none
    rewound,           \* history: a step has rewound the corpus since the
                       \*          last output
    emitted_docs,      \* history: sentences of the documents emitted in the
                       \*          current traversal, in output order
    emitted_tokens,    \* history: sum of the token totals emitted in it
    prev_docs,         \* history: emitted_docs of the last finished traversal
    prev_tokens,       \* history: emitted_tokens of the last finished traversal
    instances,         \* op instance -> "none", "live", "failed", "destroyed",
                       \*          "terminated" (its constructor ended the process)
    label_map_,        \* ParsingReader instance -> its label_map_ pointer
                       \*          (a map, Uninitialized or Dangling)
    refs,              \* SharedStore: map -> reference count
    computes,          \* WordEmbeddingInitializer::Compute calls so far
    stray_release,     \* history: Release was called with a pointer that the
                       \*          calling instance never acquired
    extracted,         \* history: what the extractor returned off-size in the
                       \*          last feature loop, NoMismatch if nothing
    status,            \* caller -> status of its last Compute that returned,
                       \*          "ok" before the first one
    alloc_failures     \* history: steps that failed in allocate_output so far

vars == <<corpus, policy, max_batch_size_, ncallers, cursor, sentences_,
          states_, workspaces_, num_epochs_, mu_, num_tokens_, num_correct_,
          documents_, pc, out, failed, performed, taken, finalized, loads,
          prev_loads, retired, ncalls, last_step, rewound, emitted_docs,
          emitted_tokens, prev_docs, prev_tokens, instances, label_map_, refs,
          computes, stray_release, extracted, status, alloc_failures>>

store_vars == <<instances, label_map_, refs, computes, stray_release>>
config == <<corpus, policy, max_batch_size_, ncallers, store_vars>>
decoded_vars == <<num_tokens_, num_correct_, documents_>>
traversal_vars == <<emitted_docs, emitted_tokens, prev_docs, prev_tokens>>
reader_vars == <<cursor, sentences_, states_, workspaces_, num_epochs_, mu_,
                 decoded_vars, pc, out, failed, performed, taken, finalized,
                 loads, prev_loads, retired, ncalls, last_step, rewound,
                 traversal_vars, extracted, status, alloc_failures>>

Slots == 0..(max_batch_size_ - 1)
Callers == 1..ncallers
NoTraversal == <<0>>   \* prev_loads before the second Rewind

\* ----------------------------------------------------------- SentenceBatch
\* SentenceBatch::size()
BatchSize(sentences) == Cardinality({i \in DOMAIN sentences : sentences[i] # 0})

\* SentenceBatch::AdvanceSentence(index) returns true
MoreSentences(c, cur) == cur < Len(c)

\* SentenceBatch::Rewind()
Rewind(cur) == 0

\* ----------------------------------------------------------- ParsingReader
\* The batch while a step runs on it.
Batch == [states |-> states_, sentences |-> sentences_, cursor |-> cursor,
          workspaces |-> workspaces_, loads |-> loads, retired |-> retired]

\* Faulty variant of AdvanceSentence: the workspace of the slot is neither
\* reset nor preprocessed for the new state.
AdvanceSentenceNoPreprocess(c, d, index) ==
    LET dropped == IF d.states[index] # NullState THEN 1 ELSE 0
        k == d.cursor + 1
    IN  IF MoreSentences(c, d.cursor)
        THEN [d EXCEPT !.states[index] = NewParserState(c, k),
                       !.sentences[index] = k,
                       !.cursor = k,
                       !.loads = Append(d.loads, k),
                       !.retired = d.retired + dropped]
        ELSE [d EXCEPT !.states[index] = NullState,
                       !.sentences[index] = 0,
                       !.retired = d.retired + dropped]

\* Faulty variant of AdvanceSentence: the batch moves to the next sentence but
\* no ParserState is created for it, so the slot stays null.
AdvanceSentenceNoState(c, d, index) ==
    LET dropped == IF d.states[index] # NullState THEN 1 ELSE 0
        k == d.cursor + 1
    IN  IF MoreSentences(c, d.cursor)
        THEN [d EXCEPT !.states[index] = NullState,
                       !.sentences[index] = k,
                       !.cursor = k,
                       !.loads = Append(d.loads, k),
                       !.retired = d.retired + dropped]
        ELSE [d EXCEPT !.states[index] = NullState,
                       !.sentences[index] = 0,
                       !.retired = d.retired + dropped]

\* ParsingReader::AdvanceSentence(index)
AdvanceSentence(c, d, index) ==
    LET dropped == IF d.states[index] # NullState THEN 1 ELSE 0
        k == d.cursor + 1
    IN  IF MoreSentences(c, d.cursor)
        THEN [d EXCEPT !.states[index] = NewParserState(c, k),
                       !.sentences[index] = k,
                       !.cursor = k,
                       !.workspaces[index] = k,
                       !.loads = Append(d.loads, k),
                       !.retired = d.retired + dropped]
        ELSE [d EXCEPT !.states[index] = NullState,
                       !.sentences[index] = 0,
                       !.retired = d.retired + dropped]

\* Faulty variant of the advance loop: an `if` in place of the `while`, so a
\* final slot is advanced once and keeps whatever sentence comes next.
WhileFinalOnce(c, d, i) ==
    IF IsFinalState(c, d.states[i]) THEN AdvanceSentence(c, d, i) ELSE d

\* Compute, lines 130-134: while (IsFinalState(*state(i))) { ... }
RECURSIVE WhileFinal(_, _, _)
WhileFinal(c, d, i) ==
    IF IsFinalState(c, d.states[i])
    THEN LET d2 == AdvanceSentence(c, d, i)
         IN  IF d2.states[i] = NullState THEN d2 ELSE WhileFinal(c, d2, i)
    ELSE d

\* Faulty variant of the advance pass: the slots are visited from the last
\* one down, so a later slot gets the next sentence first.
RECURSIVE AdvanceFinalStatesDownward(_, _, _, _)
AdvanceFinalStatesDownward(c, d, i, n) ==
    IF i >= n THEN d
    ELSE LET d2 == AdvanceFinalStatesDownward(c, d, i + 1, n)
         IN  IF d2.states[i] = NullState THEN d2 ELSE WhileFinal(c, d2, i)

\* Compute, lines 126-135: the advance pass over slots i, i+1, ...
RECURSIVE AdvanceFinalStates(_, _, _, _)
AdvanceFinalStates(c, d, i, n) ==
    IF i >= n THEN d
    ELSE IF d.states[i] = NullState THEN AdvanceFinalStates(c, d, i + 1, n)
    ELSE AdvanceFinalStates(c, WhileFinal(c, d, i), i + 1, n)

\* Faulty variant of the rewind test: size() < max_batch_size_, true as soon
\* as one slot is empty.
NeedsRewindBelowCapacity(d) ==
    BatchSize(d.sentences) < Cardinality(DOMAIN d.sentences)

\* Faulty variant of the rewind test: size() >= 0, true in every step.
NeedsRewindAlways(d) == BatchSize(d.sentences) >= 0

\* Compute, line 138
NeedsRewind(d) == BatchSize(d.sentences) = 0

\* Faulty variant of the refill: the loop after Rewind() is missing.
RefillNone(c, d, i, n) == d

\* Compute, line 142: for (i = 0; i < max_batch_size_; ++i) AdvanceSentence(i)
RECURSIVE RefillAll(_, _, _, _)
RefillAll(c, d, i, n) ==
    IF i >= n THEN d ELSE RefillAll(c, AdvanceSentence(c, d, i), i + 1, n)

\* Faulty variant of the feature loop: the rows come out in reverse slot order.
RECURSIVE FeatureRowsReversed(_, _, _, _)
FeatureRowsReversed(states, workspaces, i, n) ==
    IF i >= n THEN <<>>
    ELSE IF states[i] = NullState
    THEN FeatureRowsReversed(states, workspaces, i + 1, n)
    ELSE FeatureRowsReversed(states, workspaces, i + 1, n)
         \o <<[slot |-> i, ws |-> workspaces[i], st |-> states[i]]>>

\* Compute, lines 155-174: one feature row per non-null state, in slot order.
\* A row is what ExtractSparseFeatures reads: the slot's workspace and state.
RECURSIVE FeatureRows(_, _, _, _)
FeatureRows(states, workspaces, i, n) ==
    IF i >= n THEN <<>>
    ELSE IF states[i] = NullState THEN FeatureRows(states, workspaces, i + 1, n)
    ELSE <<[slot |-> i, ws |-> workspaces[i], st |-> states[i]]>>
         \o FeatureRows(states, workspaces, i + 1, n)

\* --------------------------------------------------------- GoldParseReader
\* Faulty variant of GoldParseReader::PerformActions: the loop stops one slot
\* early, so the last slot gets no action.
RECURSIVE GoldPerformActionsSkipLast(_, _, _, _, _)
GoldPerformActionsSkipLast(c, acc, i, n, undef) ==
    IF i >= n - 1 \/ acc.failed THEN acc
    ELSE IF acc.states[i] = NullState
    THEN GoldPerformActionsSkipLast(c, acc, i + 1, n, undef)
    ELSE LET s == acc.states[i]
             action == IF IsFinalState(c, s) THEN undef
                       ELSE GetNextGoldAction(c, s)
             call == [slot |-> i, state |-> s, action |-> action,
                      row |-> Len(acc.performed), scores |-> <<>>]
         IN  IF IsAllowedAction(c, action, s)
             THEN GoldPerformActionsSkipLast(c,
                      [acc EXCEPT !.states[i] = PerformAction(c, action, s),
                                  !.performed = Append(acc.performed, call)],
                      i + 1, n, undef)
             ELSE [acc EXCEPT !.failed = TRUE,
                              !.performed = Append(acc.performed, call)]

\* GoldParseReader::PerformActions.  acc.states are the states so far,
\* acc.performed the PerformAction calls so far; PerformAction on an action
\* that is not allowed is fatal.  `undef` is what the oracle returns on a
\* final state.
RECURSIVE GoldPerformActions(_, _, _, _, _)
GoldPerformActions(c, acc, i, n, undef) ==
    IF i >= n \/ acc.failed THEN acc
    ELSE IF acc.states[i] = NullState
    THEN GoldPerformActions(c, acc, i + 1, n, undef)
    ELSE LET s == acc.states[i]
             action == IF IsFinalState(c, s) THEN undef
                       ELSE GetNextGoldAction(c, s)
             call == [slot |-> i, state |-> s, action |-> action,
                      row |-> Len(acc.performed), scores |-> <<>>]
         IN  IF IsAllowedAction(c, action, s)
             THEN GoldPerformActions(c,
                      [acc EXCEPT !.states[i] = PerformAction(c, action, s),
                                  !.performed = Append(acc.performed, call)],
                      i + 1, n, undef)
             ELSE [acc EXCEPT !.failed = TRUE,
                              !.performed = Append(acc.performed, call)]

\* Faulty variant of the gold-action output: batch_index runs downward.
RECURSIVE GoldActionOutputsReversed(_, _, _, _)
GoldActionOutputsReversed(c, states, i, n) ==
    IF i >= n THEN {<<>>}
    ELSE IF states[i] = NullState
    THEN GoldActionOutputsReversed(c, states, i + 1, n)
    ELSE {rest \o <<a>> : a \in GoldActionChoices(c, states[i]),
                          rest \in GoldActionOutputsReversed(c, states, i + 1, n)}

\* GoldParseReader::AddAdditionalOutputs: every gold-action vector the step
\* can emit for the non-null states of slots i, i+1, ...
RECURSIVE GoldActionOutputs(_, _, _, _)
GoldActionOutputs(c, states, i, n) ==
    IF i >= n THEN {<<>>}
    ELSE IF states[i] = NullState THEN GoldActionOutputs(c, states, i + 1, n)
    ELSE {<<a>> \o rest : a \in GoldActionChoices(c, states[i]),
                          rest \in GoldActionOutputs(c, states, i + 1, n)}

\* ------------------------------------------------------ DecodedParseReader
NegInf == -1         \* -INFINITY; every score of a matrix is above it
ScoreRows == {<<NegInf, NegInf, NegInf>>, <<1, 1, 1>>, <<0, 1, 0>>,
              <<0, 0, 1>>, <<1, 0, NegInf>>, <<NegInf, 0, 1>>}
ScoreMatrices(rows) == [1..rows -> ScoreRows]

\* What a read past the end of the matrix can find: the memory behind the
\* matrix, every row of it with contents of its own, or no readable memory,
\* which ends the process.
Unreadable == <<>>
MemoryRows == ScoreRows \cup {Unreadable}

\* The memory behind a matrix of `rows` rows, for the rows up to `nrows`.
MemoryBehind(rows, nrows) == [rows..(nrows - 1) -> MemoryRows]

\* scores_matrix(batch_index, .), line 359: the index is not checked, a row
\* past the end of the matrix is read from the memory behind it.
ScoresRow(m, batch_index, garbage) ==
    IF batch_index < Len(m) THEN m[batch_index + 1] ELSE garbage[batch_index]

\* PerformActions, line 360: score > best_score
BetterScore(score, best_score) == score > best_score

\* PerformActions, lines 356-365: the scan over the columns of one row.
RECURSIVE BestAction(_, _, _, _, _, _)
BestAction(c, row, s, action, best_action, best_score) ==
    IF action >= Len(row) THEN best_action
    ELSE IF BetterScore(row[action + 1], best_score)
            /\ IsAllowedAction(c, action, s)
    THEN BestAction(c, row, s, action + 1, action, row[action + 1])
    ELSE BestAction(c, row, s, action + 1, best_action, best_score)

\* Faulty variant of ComputeTokenAccuracy: the correctness test is outside the
\* ScoreToken test, so tokens left out of scoring still count as correct.
RECURSIVE ComputeTokenAccuracyAllTokens(_, _, _)
ComputeTokenAccuracyAllTokens(c, s, i) ==
    IF i > NumTokens(c, s) THEN <<0, 0>>
    ELSE LET rest == ComputeTokenAccuracyAllTokens(c, s, i + 1)
         IN  <<rest[1] + (IF ScoreToken(c, s, i) THEN 1 ELSE 0),
               rest[2] + (IF IsTokenCorrect(c, s, i) THEN 1 ELSE 0)>>

\* DecodedParseReader::ComputeTokenAccuracy, from token i on: the increments
\* of <<num_tokens_, num_correct_>>.
RECURSIVE ComputeTokenAccuracy(_, _, _)
ComputeTokenAccuracy(c, s, i) ==
    IF i > NumTokens(c, s) THEN <<0, 0>>
    ELSE LET rest == ComputeTokenAccuracy(c, s, i + 1)
         IN  IF ScoreToken(c, s, i)
             THEN <<rest[1] + 1,
                    rest[2] + (IF IsTokenCorrect(c, s, i) THEN 1 ELSE 0)>>
             ELSE rest

\* Faulty variant of the reset: the counters keep their value.
KeepCount(count) == count

\* PerformActions, lines 351-352: num_tokens_ = 0; num_correct_ = 0;
ResetCount(count) == 0

\* DecodedParseReader::PerformActions, lines 353-377.
RECURSIVE DecodedPerformActions(_, _, _, _, _, _)
DecodedPerformActions(c, acc, m, garbage, i, n) ==
    IF i >= n \/ acc.failed THEN acc
    ELSE IF acc.states[i] = NullState
    THEN DecodedPerformActions(c, acc, m, garbage, i + 1, n)
    ELSE LET s == acc.states[i]
             row == ScoresRow(m, acc.batch_index, garbage)
             best_action == BestAction(c, row, s, 0, 0, NegInf)
             call == [slot |-> i, state |-> s, action |-> best_action,
                      row |-> acc.batch_index, scores |-> row]
             s2 == PerformAction(c, best_action, s)
             tally == ComputeTokenAccuracy(c, s2, 1)
         IN  IF row = Unreadable
             THEN [acc EXCEPT !.failed = TRUE, !.unreadable = TRUE]
             ELSE IF ~IsAllowedAction(c, best_action, s)
             THEN [acc EXCEPT !.failed = TRUE,
                              !.performed = Append(acc.performed, call)]
             ELSE DecodedPerformActions(c,
                    IF IsFinalState(c, s2)
                    THEN [acc EXCEPT
                            !.states[i] = s2,
                            !.performed = Append(acc.performed, call),
                            !.batch_index = acc.batch_index + 1,
                            !.num_tokens = acc.num_tokens + tally[1],
                            !.num_correct = acc.num_correct + tally[2],
                            !.documents = Append(acc.documents,
                                                 AnnotatedDocument(s2))]
                    ELSE [acc EXCEPT
                            !.states[i] = s2,
                            !.performed = Append(acc.performed, call),
                            !.batch_index = acc.batch_index + 1],
                    m, garbage, i + 1, n)

\* AddAdditionalOutputs, line 403: documents_.clear()
ClearDocuments(documents) == <<>>

\* ------------------------------------------------------------ the outputs
NoOutput == [emitted |-> FALSE, features |-> <<>>, nrows |-> 0, epoch |-> 0,
             gold_actions |-> <<>>, counts |-> <<0, 0>>, docs |-> <<>>]

\* The states an action pass made final, in slot order.
FinalizedBy(c, calls) ==
    LET ok == SelectSeq(calls, LAMBDA p : IsAllowedAction(c, p.action, p.state)
                  /\ IsFinalState(c, PerformAction(c, p.action, p.state)))
    IN  [k \in 1..Len(ok) |-> PerformAction(c, ok[k].action, ok[k].state)]

\* The (slot, action) pairs an action pass applied.
TakenBy(c, calls) ==
    LET ok == SelectSeq(calls, LAMBDA p : IsAllowedAction(c, p.action, p.state))
    IN  [k \in 1..Len(ok) |-> [slot |-> ok[k].slot, action |-> ok[k].action]]

Occupied(states) == {i \in DOMAIN states : states[i] # NullState}

\* The sentences of a sequence of annotated documents.
DocumentSentences(documents) ==
    [k \in 1..Len(documents) |-> documents[k].sent]

\* ------------------------------------------------------- feature extractor
\* features_->NumEmbeddings(): the feature groups, numbered from 0.
NumEmbeddings == MaxFeatureGroups
FeatureGroups == 0..(NumEmbeddings - 1)

\* features_->FeatureSize(group): group g is declared with g + 1 features.
FeatureSize(group) == group + 1

\* What one feature loop gets from ExtractSparseFeatures: every group of
\* every row has its declared size (NoMismatch), or the group x.group of row
\* x.row comes back with x.size features, one fewer or one more than declared.
NoMismatch == [row |-> 0, group |-> 0, size |-> 0]
Extractions(nrows) ==
    {NoMismatch} \cup
    UNION {{[row |-> r, group |-> g, size |-> FeatureSize(g) - 1],
            [row |-> r, group |-> g, size |-> FeatureSize(g) + 1]} :
           r \in 1..nrows, g \in FeatureGroups}

\* features[feature_space].size() for the row-th occupied slot.
ExtractedSize(x, row, feature_space) ==
    IF x.row = row /\ x.group = feature_space THEN x.size
    ELSE FeatureSize(feature_space)

\* Faulty variant of the size check: a group that is too short passes.
FeatureSizeAtMost(feature_size, feature_space) ==
    feature_size <= FeatureSize(feature_space)

\* Compute, line 166: CHECK(feature_size == features_->FeatureSize(feature_space))
FeatureSizeCheck(feature_size, feature_space) ==
    feature_size = FeatureSize(feature_space)

\* Compute, lines 155-174: the feature loop hits a failing CHECK.
PopulateFails(x, nrows) ==
    \E r \in 1..nrows : \E g \in FeatureGroups :
        ~FeatureSizeCheck(ExtractedSize(x, r, g), g)

\* ------------------------------------------------------------ SharedStore
\* The op instances of a graph: ParsingReader kernels 1..MaxReaders and one
\* WordEmbeddingInitializer kernel.
Readers == 1..MaxReaders
Initializer == 0
OpInstances == Readers \cup {Initializer}

\* The term-frequency maps the SharedStore holds, keyed by file path.
LabelMap == "label-map"
WordMap == "word-map"
Maps == {LabelMap, WordMap}

\* const TermFrequencyMap *label_map_; has no initializer.
Uninitialized == "uninitialized"

\* SharedStoreUtils::GetWithDefaultName: the map is loaded on first use and
\* its reference count goes up by one.
Acquire(counts, m) == [counts EXCEPT ![m] = counts[m] + 1]

\* SharedStore::Release(object) of an object the store holds.
Release(counts, m) ==
    [counts EXCEPT ![m] = IF counts[m] > 0 THEN counts[m] - 1 ELSE 0]

\* label_map_ of a reader whose map the store has freed: the pointer still
\* holds the address the label map had.
Dangling == "dangling"

\* What the indeterminate value of an uninitialized label_map_, or the
\* address in a dangling one, can be when the destructor passes it to
\* Release: null, an address the store does not hold, or the address of a
\* map the store holds (the allocator may have placed it there).
IndeterminatePointers == {"null", "wild"} \cup Maps

\* The store frees a map when its last reference is released: the label_map_
\* of every other reader that still points to it dangles from then on.
AfterFree(pointers, before, after, k) ==
    [j \in DOMAIN pointers |->
        IF j # k /\ pointers[j] \in Maps
           /\ before[pointers[j]] > 0 /\ after[pointers[j]] = 0
        THEN Dangling ELSE pointers[j]]

\* -------------------------------------------------------------------- Init
InitKernel ==
    /\ policy \in {"gold", "decoded"}
    /\ max_batch_size_ \in 1..MaxBatch
    /\ cursor = 0
    /\ sentences_ = [i \in Slots |-> 0]
    /\ states_ = [i \in Slots |-> NullState]
    /\ workspaces_ = [i \in Slots |-> 0]
    /\ num_epochs_ = 0
    /\ mu_ = 0
    /\ num_tokens_ = 0
    /\ num_correct_ = 0
    /\ documents_ = <<>>
    /\ pc = [c \in Callers |-> "idle"]
    /\ out = [c \in Callers |-> NoOutput]
    /\ failed = FALSE
    /\ performed = <<>>
    /\ taken = <<>>
    /\ finalized = <<>>
    /\ loads = <<>>
    /\ prev_loads = NoTraversal
    /\ retired = 0
    /\ ncalls = 0
    /\ last_step = 0
    /\ rewound = FALSE
    /\ emitted_docs = <<>>
    /\ emitted_tokens = 0
    /\ prev_docs = NoTraversal
    /\ prev_tokens = 0
    /\ extracted = NoMismatch
    /\ status = [c \in Callers |-> "ok"]
    /\ alloc_failures = 0

\* No op instance has been constructed and the SharedStore holds no map.
InitStore ==
    /\ instances = [k \in OpInstances |-> "none"]
    /\ label_map_ = [k \in Readers |-> Uninitialized]
    /\ refs = [m \in Maps |-> 0]
    /\ computes = 0
    /\ stray_release = FALSE

\* The kernel that runs the steps is reader 1, constructed without a fault:
\* its constructor acquired the label map (lines 95-96) and nothing else has
\* been constructed.
InitConstructed ==
    /\ instances = [k \in OpInstances |-> IF k = 1 THEN "live" ELSE "none"]
    /\ label_map_ = [k \in Readers |-> IF k = 1 THEN LabelMap
                                       ELSE Uninitialized]
    /\ refs = Acquire([m \in Maps |-> 0], LabelMap)
    /\ computes = 0
    /\ stray_release = FALSE

Init == ncallers = 1 /\ corpus \in Corpora /\ InitKernel /\ InitConstructed

InitMT ==
    /\ ncallers \in 2..MaxCallers
    /\ corpus \in {c \in Corpora : Len(c) <= MaxCorpusMT}
    /\ InitKernel
    /\ InitConstructed

\* ------------------------------------------------------------------ Compute
\* A caller invokes the kernel.
Call(c) ==
    /\ ~failed
    /\ pc[c] = "idle"
    /\ num_epochs_ < MaxEpochs
    /\ ncalls < MaxCallsMT
    /\ ncalls' = IF ncallers = 1 THEN ncalls ELSE ncalls + 1
    /\ pc' = [pc EXCEPT ![c] = "lock"]
    /\ UNCHANGED <<config, cursor, sentences_, states_, workspaces_,
                   num_epochs_, mu_, decoded_vars, out, failed, performed,
                   taken, finalized, loads, prev_loads, retired,
                   last_step, rewound, traversal_vars, extracted,
                   status, alloc_failures>>

\* Faulty variant of the lock: Compute does not wait for mu_.
MutexFreeAlways(mu) == TRUE

\* Compute, line 120: MutexLock lock(mu_) blocks until mu_ is free.
MutexFree(mu) == mu = 0

MutexLock(c) ==
    /\ ~failed
    /\ pc[c] = "lock"
    /\ MutexFree(mu_)
    /\ mu_' = c
    /\ pc' = [pc EXCEPT ![c] = "actions"]
    /\ UNCHANGED <<config, cursor, sentences_, states_, workspaces_,
                   num_epochs_, decoded_vars, out, failed, performed,
                   taken, finalized, loads, prev_loads, retired, ncalls,
                   last_step, rewound, traversal_vars, extracted,
                   status, alloc_failures>>

\* Compute, line 123, in GoldParseReader.
GoldActionPass(c) ==
    /\ ~failed
    /\ pc[c] = "actions"
    /\ policy = "gold"
    /\ \E undef \in (IF \E i \in Occupied(states_) : IsFinalState(corpus, states_[i])
                     THEN Actions ELSE {SHIFT}) :
         LET acc == GoldPerformActions(corpus,
                        [states |-> states_, performed |-> <<>>, failed |-> FALSE],
                        0, max_batch_size_, undef)
         IN  /\ states_' = acc.states
             /\ performed' = acc.performed
             /\ failed' = acc.failed
             /\ taken' = TakenBy(corpus, acc.performed)
             /\ finalized' = FinalizedBy(corpus, acc.performed)
             /\ pc' = [pc EXCEPT ![c] = IF acc.failed THEN "aborted" ELSE "advance"]
    /\ UNCHANGED <<config, cursor, sentences_, workspaces_, num_epochs_, mu_,
                   decoded_vars, out, loads, prev_loads, retired, ncalls,
                   last_step, rewound, traversal_vars, extracted,
                   status, alloc_failures>>

\* Compute, line 123, in DecodedParseReader.  The score matrix is the one the
\* caller computed from the features of the last output it received, one row
\* per row.  A pass that reads unreadable memory ends the process.
DecodedActionPass(c) ==
    /\ ~failed
    /\ pc[c] = "actions"
    /\ policy = "decoded"
    /\ \E m \in ScoreMatrices(Len(out[c].features)) :
       \E garbage \in MemoryBehind(Len(m), Cardinality(Occupied(states_))) :
         LET acc == DecodedPerformActions(corpus,
                        [states |-> states_, performed |-> <<>>, failed |-> FALSE,
                         unreadable |-> FALSE,
                         batch_index |-> 0,
                         num_tokens |-> ResetCount(num_tokens_),
                         num_correct |-> ResetCount(num_correct_),
                         documents |-> documents_],
                        m, garbage, 0, max_batch_size_)
         IN  /\ states_' = acc.states
             /\ performed' = acc.performed
             /\ failed' = acc.failed
             /\ num_tokens_' = acc.num_tokens
             /\ num_correct_' = acc.num_correct
             /\ documents_' = acc.documents
             /\ taken' = TakenBy(corpus, acc.performed)
             /\ finalized' = FinalizedBy(corpus, acc.performed)
             /\ pc' = [pc EXCEPT ![c] = IF acc.unreadable THEN "segfault"
                                        ELSE IF acc.failed THEN "aborted"
                                        ELSE "advance"]
    /\ UNCHANGED <<config, cursor, sentences_, workspaces_, num_epochs_, mu_,
                   out, loads, prev_loads, retired, ncalls,
                   last_step, rewound, traversal_vars, extracted,
                   status, alloc_failures>>

\* Compute, lines 125-135.
AdvancePass(c) ==
    /\ ~failed
    /\ pc[c] = "advance"
    /\ LET d == AdvanceFinalStates(corpus, Batch, 0, max_batch_size_)
       IN  /\ states_' = d.states
           /\ sentences_' = d.sentences
           /\ cursor' = d.cursor
           /\ workspaces_' = d.workspaces
           /\ loads' = d.loads
           /\ retired' = d.retired
    /\ performed' = <<>>
    /\ pc' = [pc EXCEPT ![c] = "rewind"]
    /\ UNCHANGED <<config, num_epochs_, mu_, decoded_vars, out, failed, taken,
                   finalized, prev_loads, ncalls,
                   last_step, rewound, traversal_vars, extracted,
                   status, alloc_failures>>

\* Compute, lines 137-143.
RewindBlock(c) ==
    /\ ~failed
    /\ pc[c] = "rewind"
    /\ \/ /\ NeedsRewind(Batch)
          /\ num_epochs_' = num_epochs_ + 1
          /\ LET d == RefillAll(corpus,
                          [Batch EXCEPT !.cursor = Rewind(cursor), !.loads = <<>>],
                          0, max_batch_size_)
             IN  /\ states_' = d.states
                 /\ sentences_' = d.sentences
                 /\ cursor' = d.cursor
                 /\ workspaces_' = d.workspaces
                 /\ loads' = d.loads
                 /\ retired' = d.retired
          /\ prev_loads' = IF num_epochs_ = 0 THEN NoTraversal ELSE loads
          /\ rewound' = TRUE
       \/ /\ ~NeedsRewind(Batch)
          /\ UNCHANGED <<num_epochs_, states_, sentences_, cursor, workspaces_,
                         loads, retired, prev_loads, rewound>>
    /\ pc' = [pc EXCEPT ![c] = "output"]
    /\ UNCHANGED <<config, mu_, decoded_vars, out, failed, performed, taken,
                   finalized, ncalls, last_step, traversal_vars, extracted,
                   status, alloc_failures>>

\* The allocate_output call of a step that fails, if any: one of the feature
\* outputs (lines 147-152), the epoch output (lines 178-179) or an output of
\* AddAdditionalOutputs (lines 283-285, 384-386, 392-396).
AllocationFaults == {"none", "features", "epoch", "additional"}

\* Compute, lines 145-185, and the release of mu_ when Compute returns.  A
\* failing allocate_output makes OP_REQUIRES_OK return from Compute with an
\* error status and no output, before documents_ is cleared in line 403; the
\* feature outputs are allocated before the feature loop, the others after
\* it.  A failing CHECK in the feature loop ends the process before any
\* output of the step is handed over.
Outputs(c) ==
    /\ ~failed
    /\ pc[c] = "output"
    /\ \E fault \in AllocationFaults :
       \E x \in (IF fault = "features" THEN {NoMismatch}
                 ELSE Extractions(BatchSize(sentences_))) :
         /\ fault # "none" => /\ alloc_failures < MaxAllocFailures
                              /\ Len(corpus) <= MaxCorpusAlloc
         /\ extracted' = x
         /\ IF PopulateFails(x, BatchSize(sentences_))
            THEN /\ failed' = TRUE
                 /\ pc' = [pc EXCEPT ![c] = "check_failed"]
                 /\ UNCHANGED <<out, documents_, mu_, last_step, rewound,
                                traversal_vars, status, alloc_failures>>
            ELSE IF fault # "none"
            THEN /\ failed' = failed
                 /\ status' = [status EXCEPT ![c] = "error"]
                 /\ alloc_failures' = alloc_failures + 1
                 /\ mu_' = 0
                 /\ pc' = [pc EXCEPT ![c] = "idle"]
                 /\ last_step' = c
                 /\ UNCHANGED <<out, documents_, rewound, traversal_vars>>
            ELSE /\ failed' = failed
                 /\ status' = [status EXCEPT ![c] = "ok"]
                 /\ UNCHANGED alloc_failures
                 /\ \E gold_actions \in
                         (IF policy = "gold"
                          THEN GoldActionOutputs(corpus, states_, 0, max_batch_size_)
                          ELSE {<<>>}) :
                      out' = [out EXCEPT ![c] =
                                [emitted |-> TRUE,
                                 features |-> FeatureRows(states_, workspaces_, 0,
                                                          max_batch_size_),
                                 nrows |-> BatchSize(sentences_),
                                 epoch |-> num_epochs_,
                                 gold_actions |-> gold_actions,
                                 counts |-> IF policy = "decoded"
                                            THEN <<num_tokens_, num_correct_>>
                                            ELSE <<0, 0>>,
                                 docs |-> IF policy = "decoded" THEN documents_
                                          ELSE <<>>]]
                 /\ documents_' = IF policy = "decoded"
                                  THEN ClearDocuments(documents_)
                                  ELSE documents_
                 /\ mu_' = 0
                 /\ pc' = [pc EXCEPT ![c] = "idle"]
                 /\ last_step' = c
                 /\ rewound' = FALSE
                 /\ LET docs == emitted_docs \o (IF policy = "decoded"
                                                  THEN DocumentSentences(documents_)
                                                  ELSE <<>>)
                        tokens == emitted_tokens + (IF policy = "decoded"
                                                    THEN num_tokens_ ELSE 0)
                    IN  IF rewound
                        THEN /\ emitted_docs' = <<>>
                             /\ emitted_tokens' = 0
                             /\ prev_docs' = IF num_epochs_ >= 2 THEN docs
                                             ELSE NoTraversal
                             /\ prev_tokens' = tokens
                        ELSE /\ emitted_docs' = docs
                             /\ emitted_tokens' = tokens
                             /\ UNCHANGED <<prev_docs, prev_tokens>>
    /\ UNCHANGED <<config, cursor, sentences_, states_, workspaces_,
                   num_epochs_, num_tokens_, num_correct_, performed,
                   taken, finalized, loads, prev_loads, retired, ncalls>>

Next ==
    \/ \E c \in Callers : Call(c)
    \/ \E c \in Callers : MutexLock(c)
    \/ \E c \in Callers : GoldActionPass(c)
    \/ \E c \in Callers : DecodedActionPass(c)
    \/ \E c \in Callers : AdvancePass(c)
    \/ \E c \in Callers : RewindBlock(c)
    \/ \E c \in Callers : Outputs(c)

Spec == Init /\ [][Next]_vars

SpecMT == InitMT /\ [][Next]_vars

\* ------------------------------------------------- lifetime of op instances
\* The faults of the constructor of a reader kernel, by the place where the
\* base constructor returns:
\*   "early_attribute"  GetAttr of task_context or feature_size, lines 63-64;
\*   "late_attribute"   GetAttr of batch_size, corpus_name or arg_prefix, or
\*                      the task context file, lines 65-75;
\*   "feature_size"     feature_size >= 0 differs from the number of feature
\*                      groups, lines 99-102;
\*   "negative_feature_size"  the same with feature_size < 0;
\*   "signature"        MatchSignature in the derived constructor, lines 266
\*                      and 328.
ConstructorFaults ==
    {"none", "early_attribute", "late_attribute", "feature_size",
     "negative_feature_size", "signature"}

\* feature_size_ when the derived constructor runs: the default -1 of line
\* 233 unless line 64 stored the attribute.
FeatureSizeMember(fault) ==
    IF fault \in {"early_attribute", "negative_feature_size"} THEN -1
    ELSE IF fault = "feature_size" THEN NumEmbeddings + 1
    ELSE NumEmbeddings

\* default_outputs(), lines 195-199, called in lines 264 and 324 after the
\* base constructor has returned, with or without an error: a vector of
\* feature_size_ elements.  A negative size throws std::length_error, which
\* nothing catches.
DefaultOutputsThrows(fault) == FeatureSizeMember(fault) < 0

\* label_map_ is assigned in lines 95-96 when the base constructor got there.
ReachesLabelMap(fault) ==
    fault \in {"none", "feature_size", "negative_feature_size", "signature"}

\* An exception has ended the process: no kernel is constructed, computed or
\* destroyed any more.
ProcessRunning == \A k \in OpInstances : instances[k] # "terminated"

\* GoldParseReader::GoldParseReader, lines 261-267, and
\* DecodedParseReader::DecodedParseReader, lines 321-332: the base
\* constructor ParsingReader::ParsingReader, lines 61-103, then
\* default_outputs().  OP_REQUIRES_OK / OP_REQUIRES record the error and
\* return from the base constructor only.
ConstructReader(k) ==
    /\ ProcessRunning
    /\ instances[k] = "none"
    /\ \E fault \in ConstructorFaults :
         /\ instances' = [instances EXCEPT ![k] =
                             IF DefaultOutputsThrows(fault) THEN "terminated"
                             ELSE IF fault = "none" THEN "live" ELSE "failed"]
         /\ IF ReachesLabelMap(fault)
            THEN /\ label_map_' = [label_map_ EXCEPT ![k] = LabelMap]
                 /\ refs' = Acquire(refs, LabelMap)
            ELSE UNCHANGED <<label_map_, refs>>
    /\ UNCHANGED <<corpus, policy, max_batch_size_, ncallers, reader_vars,
                   computes, stray_release>>

\* ParsingReader::~ParsingReader, line 105: SharedStore::Release(label_map_),
\* also for an instance whose constructor reported an error, and also when
\* the map label_map_ pointed to has been freed in the meantime.
DestroyReader(k) ==
    /\ ProcessRunning
    /\ instances[k] \in {"live", "failed"}
    /\ instances' = [instances EXCEPT ![k] = "destroyed"]
    /\ \E ptr \in (IF label_map_[k] \in Maps THEN {label_map_[k]}
                   ELSE IndeterminatePointers) :
         /\ refs' = IF ptr \in Maps THEN Release(refs, ptr) ELSE refs
         /\ label_map_' = AfterFree(label_map_, refs, refs', k)
    /\ stray_release' = (stray_release \/ label_map_[k] = Uninitialized)
    /\ UNCHANGED <<corpus, policy, max_batch_size_, ncallers, reader_vars,
                   computes>>

\* WordEmbeddingInitializer::WordEmbeddingInitializer, lines 423-438.
ConstructInitializer ==
    /\ ProcessRunning
    /\ instances[Initializer] = "none"
    /\ \E fault \in {"none", "attribute"} :
         instances' = [instances EXCEPT ![Initializer] =
                          IF fault = "none" THEN "live" ELSE "failed"]
    /\ UNCHANGED <<corpus, policy, max_batch_size_, ncallers, reader_vars,
                   label_map_, refs, computes, stray_release>>

\* WordEmbeddingInitializer::Compute, lines 440-477: word_map is acquired in
\* line 443 and held in a local variable until Compute returns.
ComputeInitializer ==
    /\ ProcessRunning
    /\ instances[Initializer] = "live"
    /\ computes < MaxEmbeddings
    /\ computes' = computes + 1
    /\ refs' = Acquire(refs, WordMap)
    /\ UNCHANGED <<corpus, policy, max_batch_size_, ncallers, reader_vars,
                   instances, label_map_, stray_release>>

\* The implicit destructor of WordEmbeddingInitializer.
DestroyInitializer ==
    /\ ProcessRunning
    /\ instances[Initializer] \in {"live", "failed"}
    /\ instances' = [instances EXCEPT ![Initializer] = "destroyed"]
    /\ UNCHANGED <<corpus, policy, max_batch_size_, ncallers, reader_vars,
                   label_map_, refs, computes, stray_release>>

\* The readers of SpecStore never run a step.
InitLifetime ==
    /\ ncallers = 1
    /\ corpus = <<OneToken>>
    /\ InitKernel
    /\ policy = "gold"
    /\ max_batch_size_ = 1
    /\ InitStore

NextStore ==
    \/ \E k \in Readers : ConstructReader(k)
    \/ \E k \in Readers : DestroyReader(k)
    \/ ConstructInitializer
    \/ ComputeInitializer
    \/ DestroyInitializer

SpecStore == InitLifetime /\ [][NextStore]_vars

\* ------------------------------------------------------------ properties
\* Caller c has received the outputs of a step and has not started the next
\* one.
StepDone(c) == pc[c] = "idle" /\ out[c].emitted /\ status[c] = "ok"

\* The last Compute of caller c that returned handed over outputs.
LastStepReturnedOutputs(c) == status[c] = "ok"

\* Caller c is inside the part of Compute that mu_ guards.
InStep(c) == pc[c] \in {"actions", "advance", "rewind", "output"}

\* Caller c has just run the action pass of a step.
AfterActions(c) == pc[c] \in {"advance", "aborted"}

\* Full traversals of the corpus completed: every sentence of the corpus has
\* been loaded into a slot and dropped from it that many times.
TraversalsCompleted == retired \div Len(corpus)

\* C1 as claimed: with batch size B < N, the epoch value a step emits equals
\* the number of full corpus traversals completed so far, starting from 0.
C1_EpochIsTraversals ==
    \A c \in Callers :
        (StepDone(c) /\ max_batch_size_ < Len(corpus))
            => out[c].epoch = TraversalsCompleted

\* C1 amended: with batch size B < N, the epoch value a step emits is one more
\* than the number of full corpus traversals completed so far: the first step
\* already emits 1, and the counter goes up once per completed traversal.
C1_EpochIsTraversalsPlusOne ==
    \A c \in Callers :
        (StepDone(c) /\ max_batch_size_ < Len(corpus))
            => out[c].epoch = TraversalsCompleted + 1

C1_Witness ==
    /\ StepDone(1)
    /\ max_batch_size_ = 2 /\ Len(corpus) = 3
    /\ TraversalsCompleted = 1
    /\ retired > Len(corpus)
    /\ out[1].epoch = 2

\* C2 as claimed: every action DecodedParseReader passes to PerformAction is
\* allowed on the state it is applied to.
C2_OnlyAllowedActions ==
    policy = "decoded" =>
        \A r \in 1..Len(performed) :
            IsAllowedAction(corpus, performed[r].action, performed[r].state)

\* The allowed actions of state s with the highest score in `row`.
AllowedArgmax(c, row, s) ==
    {a \in Actions :
        /\ IsAllowedAction(c, a, s)
        /\ \A b \in Actions : IsAllowedAction(c, b, s) => row[b + 1] <= row[a + 1]}

\* C3 as claimed: the action DecodedParseReader applies to a slot is the
\* lowest-indexed action among the allowed actions with the maximal score.
C3_RestrictedArgmax ==
    policy = "decoded" =>
        \A r \in 1..Len(performed) :
            LET best == AllowedArgmax(corpus, performed[r].scores, performed[r].state)
            IN  best # {} =>
                    /\ performed[r].action \in best
                    /\ \A a \in best : performed[r].action <= a

\* C4 as claimed: the gold-action output of a step holds, for every slot that
\* is occupied at the end of the step by a state an action of the step was
\* applied to (not one loaded after the action pass), the action applied.
C4_OutputIsActionTaken ==
    policy = "gold" =>
        \A c \in Callers : StepDone(c) =>
            \A r \in 1..Len(out[c].gold_actions) :
            \A k \in 1..Len(taken) :
                (taken[k].slot = out[c].features[r].slot
                 /\ out[c].features[r].st.next > 1)
                    => out[c].gold_actions[r] = taken[k].action

\* C4 amended: the gold-action output of a step holds, for every slot occupied
\* at the end of the step, the oracle's next action for the state the slot
\* holds then: row r is the action the next step's action pass applies to the
\* slot of row r (where that state is not final, so the oracle is defined).
C4_OutputIsNextAction ==
    policy = "gold" =>
        \A c \in Callers : (AfterActions(c) /\ LastStepReturnedOutputs(c)) =>
            /\ Len(performed) <= Len(out[c].gold_actions)
            /\ \A r \in 1..Len(performed) :
                  /\ performed[r].slot = out[c].features[r].slot
                  /\ ~IsFinalState(corpus, performed[r].state)
                        => performed[r].action = out[c].gold_actions[r]

C4_Witness ==
    /\ policy = "gold"
    /\ pc[1] = "advance"
    /\ Len(performed) = 2
    /\ performed[1].action # performed[2].action
    /\ out[1].gold_actions = <<performed[1].action, performed[2].action>>

\* C5: with one caller on a DecodedParseReader, the action pass of a step
\* reads row r of the score matrix for the slot and the state whose features
\* are row r of the previous step's output, for as many rows as that output
\* has; between two steps the occupied slots do not change.
C5_RowsMatchPreviousOutput ==
    (policy = "decoded" /\ ncallers = 1) =>
        /\ (AfterActions(1) /\ LastStepReturnedOutputs(1)) =>
              /\ Len(performed) <= Len(out[1].features)
              /\ pc[1] = "advance" => Len(performed) = Len(out[1].features)
              /\ \A r \in 1..Len(performed) :
                    /\ performed[r].row = r - 1
                    /\ performed[r].slot = out[1].features[r].slot
                    /\ performed[r].state = out[1].features[r].st
        /\ (out[1].emitted /\ LastStepReturnedOutputs(1)
              /\ pc[1] \in {"idle", "lock", "actions"}) =>
              FeatureRows(states_, workspaces_, 0, max_batch_size_)
                  = out[1].features

C5_Witness ==
    /\ policy = "decoded" /\ ncallers = 1
    /\ pc[1] = "advance"
    /\ Len(performed) = 2
    /\ performed[1].state.stack # performed[2].state.stack
    /\ performed[1].action # performed[2].action

\* C6: at most one caller is inside the guarded part of Compute, and it is
\* the caller that holds mu_; nobody is inside while mu_ is free.
C6_StepsSerialized ==
    /\ \A c1 \in Callers : \A c2 \in Callers :
          (InStep(c1) /\ InStep(c2)) => c1 = c2
    /\ \A c \in Callers : InStep(c) => mu_ = c
    /\ mu_ = 0 => \A c \in Callers : pc[c] \in {"idle", "lock"}

C6_Witness ==
    /\ ncallers >= 2
    /\ pc[1] = "advance" /\ pc[2] = "lock"
    /\ out[2].emitted
    /\ Occupied(states_) # {}

\* The scenario of C7: three one-token sentences, batch size 2.
Scenario ==
    /\ corpus = <<OneToken, OneToken, OneToken>>
    /\ max_batch_size_ = 2
    /\ ncallers = 1

\* Slot 0 and slot 1 hold the sentences with corpus indices a and b.
SlotsHold(a, b) == sentences_[0] = a /\ sentences_[1] = b

\* C7 as claimed: slots 0 and 1 first hold sentences 1 and 2; when they are
\* done slot 0 holds sentence 3; when the batch has emptied the epoch counter
\* is 1 and the slots hold sentences 1 and 2 again.
C7_ScenarioEpochOne ==
    (Scenario /\ StepDone(1)) =>
        /\ retired = 0 => SlotsHold(1, 2)
        /\ retired = 2 => SlotsHold(3, 0)
        /\ retired = 3 => (SlotsHold(1, 2) /\ out[1].epoch = 1)

\* C7 amended: as claimed, but the epoch counter is 1 from the first step on
\* and the rewind that ends the first traversal takes it to 2 (in general,
\* to one more than the number of traversals completed).
C7_ScenarioEpochTwo ==
    (Scenario /\ StepDone(1)) =>
        /\ retired = 0 => (SlotsHold(1, 2) /\ out[1].epoch = 1)
        /\ retired = 2 => (SlotsHold(3, 0) /\ out[1].epoch = 1)
        /\ retired = 3 => (SlotsHold(1, 2) /\ out[1].epoch = 2)
        /\ retired % 3 = 0 => SlotsHold(1, 2)
        /\ retired % 3 = 2 => SlotsHold(3, 0)
        /\ retired % 3 # 1
        /\ out[1].epoch = (retired \div 3) + 1

C7_Witness ==
    /\ Scenario /\ StepDone(1)
    /\ retired = 3
    /\ SlotsHold(1, 2)
    /\ out[1].epoch = 2

\* C8: in every traversal the sentences are loaded in corpus order, each
\* exactly once: the loads since the last rewind are sentences 1..cursor, and
\* the traversal a rewind closed loaded exactly sentences 1..N in that order.
C8_SameOrderEveryTraversal ==
    /\ loads = [k \in 1..cursor |-> k]
    /\ prev_loads # NoTraversal => prev_loads = [k \in 1..Len(corpus) |-> k]

C8_Witness ==
    /\ prev_loads # NoTraversal
    /\ Len(corpus) = 3
    /\ max_batch_size_ = 2
    /\ loads = prev_loads

RECURSIVE SumSeq(_)
SumSeq(q) == IF q = <<>> THEN 0 ELSE Head(q) + SumSeq(Tail(q))

ScoredTokens(c, s) == {t \in 1..NumTokens(c, s) : ScoreToken(c, s, t)}
CorrectTokens(c, s) == {t \in ScoredTokens(c, s) : IsTokenCorrect(c, s, t)}

\* C9: the accuracy tuple a DecodedParseReader step emits counts the scored
\* and the correct tokens of exactly the states an action of this step made
\* final, whatever earlier steps counted.
C9_CountsOfThisStepOnly ==
    policy = "decoded" =>
        \A c \in Callers : (StepDone(c) /\ ncallers = 1) =>
            out[c].counts =
                <<SumSeq([k \in 1..Len(finalized) |->
                            Cardinality(ScoredTokens(corpus, finalized[k]))]),
                  SumSeq([k \in 1..Len(finalized) |->
                            Cardinality(CorrectTokens(corpus, finalized[k]))])>>

C9_Witness ==
    /\ policy = "decoded" /\ StepDone(1)
    /\ out[1].counts = <<1, 0>>
    /\ retired > Len(finalized)
    /\ Len(finalized) = 1

\* C10: the documents a DecodedParseReader step emits are the states an
\* action of this step made final, in slot order, each with its inferred
\* heads, and documents_ is empty once the step has emitted them.
C10_DocumentsOfThisStepOnly ==
    policy = "decoded" =>
        \A c \in Callers : (StepDone(c) /\ ncallers = 1) =>
            /\ out[c].docs = [k \in 1..Len(finalized) |->
                                 AnnotatedDocument(finalized[k])]
            /\ documents_ = <<>>

\* ---- C11 ----------------------------------------------------------------
\* The slots of the feature rows / of a sequence of rows.
RowSlots(rows) == [r \in 1..Len(rows) |-> rows[r].slot]

StrictlyIncreasing(seq) == \A a, b \in 1..Len(seq) : a < b => seq[a] < seq[b]

\* C11: at every point SentenceBatch size() is the number of slots that hold
\* a non-null ParserState; the feature output of a step has exactly size()
\* rows, row r being the features of the r-th occupied slot in increasing
\* slot order; the gold-action output has the same length and the same
\* order.
C11_CompactedRows ==
    /\ BatchSize(sentences_) = Cardinality(Occupied(states_))
    /\ \A c \in Callers : StepDone(c) =>
          LET rows == out[c].features
          IN  /\ out[c].nrows = Len(rows)
              /\ Len(rows) = Cardinality(Occupied(states_))
              /\ StrictlyIncreasing(RowSlots(rows))
              /\ {rows[r].slot : r \in 1..Len(rows)} = Occupied(states_)
              /\ \A r \in 1..Len(rows) : rows[r].st = states_[rows[r].slot]
              /\ policy = "gold" =>
                    /\ Len(out[c].gold_actions) = Len(rows)
                    /\ \A r \in 1..Len(rows) :
                          out[c].gold_actions[r]
                              \in GoldActionChoices(corpus, rows[r].st)

\* A gold step ends with slot 0 empty and slot 1 occupied: the only row of
\* both outputs is the one of slot 1.
C11_Witness ==
    /\ StepDone(1)
    /\ policy = "gold"
    /\ max_batch_size_ = 2
    /\ states_[0] = NullState
    /\ states_[1] # NullState
    /\ out[1].nrows = 1
    /\ out[1].features[1].slot = 1
    /\ Len(out[1].gold_actions) = 1

\* ---- C12 ----------------------------------------------------------------
\* C12: ComputeTokenAccuracy adds one to the total for exactly the tokens
\* ScoreToken selects and one to the correct count for exactly those of them
\* that IsTokenCorrect accepts; a token that is not selected adds nothing,
\* whatever head was inferred for it; so correct <= total in every output.
C12_TokenAccuracy ==
    \A c \in Callers : (StepDone(c) /\ policy = "decoded") =>
        /\ out[c].counts[2] <= out[c].counts[1]
        /\ \A k \in 1..Len(finalized) :
              LET s == finalized[k]
                  selected == {t \in 1..NumTokens(corpus, s) :
                                 ScoreToken(corpus, s, t)}
                  tally == ComputeTokenAccuracy(corpus, s, 1)
              IN  /\ tally[1] = Cardinality(selected)
                  /\ tally[2] = Cardinality({t \in selected :
                                                IsTokenCorrect(corpus, s, t)})
                  /\ tally[2] <= tally[1]
                  /\ Len(finalized) = 1 => out[c].counts = tally

\* A two-token sentence is finished with its scored token 1 wrong and its
\* unscored token 2 right: the step reports one token, none correct.
C12_Witness ==
    /\ StepDone(1)
    /\ policy = "decoded"
    /\ Len(finalized) = 1
    /\ corpus[finalized[1].sent] = TwoTokens
    /\ ~ScoreToken(corpus, finalized[1], 2)
    /\ IsTokenCorrect(corpus, finalized[1], 2)
    /\ ~IsTokenCorrect(corpus, finalized[1], 1)
    /\ out[1].counts = <<1, 0>>

\* ---- C13 ----------------------------------------------------------------
\* The instances that acquired a reference to map m and are not torn down;
\* a reader only ever acquires the label map, so a dangling label_map_ is a
\* reference to it.
Holders(m) ==
    {k \in Readers :
        /\ instances[k] \in {"live", "failed"}
        /\ \/ label_map_[k] = m
           \/ m = LabelMap /\ label_map_[k] = Dangling}

\* C13: the shared term-frequency maps are reference-counted correctly over
\* the lifetime of all op instances: Release is only ever called for a map
\* the calling instance acquired (also when its construction failed before
\* the acquisition), no instance loses its reference before its teardown,
\* and once every instance is torn down every acquisition has been matched
\* by a release, so no reference is left.
C13_MapsReferenceCounted ==
    /\ ~stray_release
    /\ \A m \in Maps : refs[m] >= Cardinality(Holders(m))
    /\ (\A k \in OpInstances : instances[k] \in {"none", "destroyed"})
          => \A m \in Maps : refs[m] = 0

\* ---- C14 ----------------------------------------------------------------
\* Caller c runs the rewind block of its step.
RewindStep(c) == pc[c] = "rewind" /\ pc'[c] = "output"

\* The slot contents right after Rewind() and one AdvanceSentence per slot.
FirstSentences ==
    [i \in Slots |-> IF i + 1 <= Len(corpus) THEN i + 1 ELSE 0]

\* C14: within a step the epoch goes up by exactly one and the corpus is
\* rewound and every slot refilled from its start if and only if every slot
\* is empty after the advance pass; otherwise the rewind block changes
\* nothing.  An empty slot is never refilled except by that rewind, and the
\* epoch never decreases.
C14_RewindIffAllEmpty ==
    [][ /\ num_epochs_' \in {num_epochs_, num_epochs_ + 1}
        /\ \A c \in Callers : RewindStep(c) =>
              IF Occupied(states_) = {}
              THEN /\ num_epochs_' = num_epochs_ + 1
                   /\ sentences_' = FirstSentences
                   /\ Occupied(states_') = {i \in Slots : FirstSentences[i] # 0}
                   /\ cursor' = BatchSize(FirstSentences)
                   /\ rewound'
              ELSE /\ num_epochs_' = num_epochs_
                   /\ states_' = states_
                   /\ sentences_' = sentences_
                   /\ cursor' = cursor
                   /\ rewound' = rewound
        /\ (\E i \in Slots : states_[i] = NullState /\ states_'[i] # NullState)
              => (num_epochs_' = num_epochs_ + 1 /\ Occupied(states_) = {})
        /\ num_epochs_' # num_epochs_ => \E c \in Callers : RewindStep(c)
      ]_vars

\* The second rewind of a run: a step found every slot empty after its
\* advance pass, rewound, and refilled both slots.
C14_Witness ==
    /\ pc[1] = "output"
    /\ rewound
    /\ num_epochs_ = 2
    /\ max_batch_size_ = 2
    /\ Occupied(states_) = Slots
    /\ cursor = 2

\* ---- C15 ----------------------------------------------------------------
\* Caller c runs the advance pass of its step.
AdvanceStep(c) == pc[c] = "advance" /\ pc'[c] = "rewind"

\* The initial state of corpus sentence k is already final.
InitiallyFinal(k) == IsFinalState(corpus, NewParserState(corpus, k))

\* C15: the advance pass moves every slot whose state is final to the next
\* corpus sentence, repeatedly, skipping the sentences whose initial state is
\* already final, until the slot holds a non-final state or the corpus is
\* exhausted, in which case the slot is left empty; slots whose state is not
\* final, and empty slots, are not touched.
C15_AdvanceUntilNonFinal ==
    [][ \A c \in Callers : AdvanceStep(c) =>
          /\ \A i \in Slots :
                IF states_[i] # NullState /\ IsFinalState(corpus, states_[i])
                THEN \/ /\ states_'[i] = NullState
                        /\ sentences_'[i] = 0
                        /\ cursor' = Len(corpus)
                     \/ /\ sentences_'[i] \in (cursor + 1)..cursor'
                        /\ states_'[i] = NewParserState(corpus, sentences_'[i])
                        /\ ~IsFinalState(corpus, states_'[i])
                ELSE /\ states_'[i] = states_[i]
                     /\ sentences_'[i] = sentences_[i]
                     /\ workspaces_'[i] = workspaces_[i]
          /\ \A k \in (cursor + 1)..cursor' :
                \/ InitiallyFinal(k)
                \/ \E i \in Slots : sentences_'[i] = k
          /\ \A i, j \in Slots :
                (i < j /\ sentences_'[i] > cursor /\ sentences_'[j] > cursor)
                    => sentences_'[i] < sentences_'[j]
      ]_vars

\* The advance pass has moved the only slot from sentence 1 past sentence 2,
\* whose initial state is final, to sentence 3.
C15_Witness ==
    /\ pc[1] = "rewind"
    /\ max_batch_size_ = 1
    /\ Len(corpus) = 3
    /\ InitiallyFinal(2)
    /\ sentences_[0] = 3
    /\ loads = <<1, 2, 3>>
    /\ states_[0] = NewParserState(corpus, 3)

\* ---- C16 ----------------------------------------------------------------
\* C16: at the end of every step no occupied slot holds a final state, for
\* any corpus, also one with sentences whose initial state is final; so the
\* features a step emits are never those of a final state, and neither
\* GetNextGoldAction nor PerformAction is ever called on a final state.
C16_NoFinalStateAtStepEnd ==
    /\ \A c \in Callers : StepDone(c) =>
          /\ \A i \in Occupied(states_) : ~IsFinalState(corpus, states_[i])
          /\ \A r \in 1..Len(out[c].features) :
                ~IsFinalState(corpus, out[c].features[r].st)
    /\ \A k \in 1..Len(performed) : ~IsFinalState(corpus, performed[k].state)

\* ---- C17 ----------------------------------------------------------------
\* Caller c runs the action pass of its step, to its end / into a fatal
\* check.
ActionStep(c) == pc[c] = "actions" /\ pc'[c] = "advance"
ActionStepAborted(c) == pc[c] = "actions" /\ pc'[c] = "aborted"

\* C17: the action pass of a step applies exactly one action to every slot
\* that is occupied when the step starts, in slot order, and none to an empty
\* slot; under the gold policy the action is the one GetNextGoldAction
\* returns for the slot's state, applied without a legality test.  No slot
\* gets two actions in a step: the rest of the step only replaces a state by
\* the initial state of a newly loaded sentence (or by null), and that state
\* stays as loaded until the next step's action pass.
C17_OneActionPerOccupiedSlot ==
    [][ \A c \in Callers :
          /\ ActionStep(c) =>
                /\ Len(performed') = Cardinality(Occupied(states_))
                /\ {performed'[k].slot : k \in 1..Len(performed')}
                      = Occupied(states_)
                /\ \A i \in Slots \ Occupied(states_) : states_'[i] = NullState
                /\ \A k \in 1..Len(performed') :
                      LET p == performed'[k]
                      IN  /\ p.state = states_[p.slot]
                          /\ states_'[p.slot]
                                = PerformAction(corpus, p.action, p.state)
                          /\ policy = "gold" =>
                                p.action = GetNextGoldAction(corpus, p.state)
          /\ (ActionStep(c) \/ ActionStepAborted(c)) =>
                /\ StrictlyIncreasing(RowSlots(performed'))
                /\ \A k \in 1..Len(performed') :
                      performed'[k].slot \in Occupied(states_)
          /\ (AdvanceStep(c) \/ RewindStep(c)) =>
                \A i \in Slots :
                  states_'[i] # states_[i] =>
                    \/ states_'[i] = NullState
                    \/ states_'[i] = NewParserState(corpus, sentences_'[i])
          /\ (pc[c] = "output" /\ pc'[c] = "idle") => states_' = states_
      ]_vars

\* A gold action pass over two occupied slots has applied one action to
\* each, and the advance pass has then loaded a new sentence into slot 1,
\* which is still in its initial state when the step ends.
C17_Witness ==
    /\ StepDone(1)
    /\ policy = "gold"
    /\ max_batch_size_ = 2
    /\ Len(taken) = 2
    /\ taken[1].slot = 0
    /\ taken[2].slot = 1
    /\ sentences_[1] = 3
    /\ states_[1] = NewParserState(corpus, 3)
    /\ states_[0] # NullState
    /\ states_[0] # NewParserState(corpus, sentences_[0])

\* ---- C18 ----------------------------------------------------------------
\* Every occupied slot's workspace is the one preprocessed for the state in
\* that slot, and no two slots use a workspace of the same sentence.
WorkspacesMatchStates ==
    /\ \A i \in Occupied(states_) :
          /\ workspaces_[i] = states_[i].sent
          /\ workspaces_[i] = sentences_[i]
    /\ \A i, j \in Occupied(states_) :
          i # j => workspaces_[i] # workspaces_[j]

\* C18: whenever a new sentence occupies a slot, the slot's workspace is
\* reset and preprocessed for the new state, and it is left alone while the
\* slot keeps its sentence; so every feature row a step emits was extracted
\* with the workspace of the row's own slot, populated for the row's own
\* state, never one populated for an earlier sentence or for another slot.
C18_WorkspaceFollowsSentence ==
    [][ /\ \A i \in Slots :
              IF sentences_'[i] # sentences_[i] /\ sentences_'[i] # 0
              THEN /\ workspaces_'[i] = sentences_'[i]
                   /\ states_'[i] = NewParserState(corpus, sentences_'[i])
              ELSE sentences_'[i] = sentences_[i]
                     => workspaces_'[i] = workspaces_[i]
        /\ WorkspacesMatchStates'
        /\ \A c \in Callers :
              (pc[c] = "output" /\ pc'[c] = "idle" /\ status'[c] = "ok") =>
              \A r \in 1..Len(out'[c].features) :
                LET row == out'[c].features[r]
                IN  /\ row.st = states_[row.slot]
                    /\ row.ws = workspaces_[row.slot]
                    /\ row.ws = row.st.sent
      ]_vars

\* A step ends with slot 0 on its second sentence (sentence 3, after
\* sentence 1) and slot 1 on sentence 2, each row carrying the workspace of
\* its own sentence.
C18_Witness ==
    /\ StepDone(1)
    /\ max_batch_size_ = 2
    /\ Len(out[1].features) = 2
    /\ out[1].features[1].ws = 3
    /\ out[1].features[1].st.sent = 3
    /\ out[1].features[2].ws = 2
    /\ retired >= 1
    /\ num_epochs_ = 1

\* ---- C19 ----------------------------------------------------------------
\* The action pass caller c has just run read row r of c's score matrix, which
\* has one row per feature row of c's last output, for the slot and the state
\* of that feature row, and read no row beyond the matrix.
RowsFromOwnFeatures(c) ==
    /\ Len(performed) <= Len(out[c].features)
    /\ \A r \in 1..Len(performed) :
          /\ performed[r].row = r - 1
          /\ r <= Len(out[c].features) =>
                /\ performed[r].slot = out[c].features[r].slot
                /\ performed[r].state = out[c].features[r].st

\* C19 as claimed: with two or more concurrent callers, each computing its
\* scores from the features it read last, every step of a caller that has
\* read features consumes scores that
\* were computed from the features of the immediately preceding step, so row
\* r is applied to the state whose features produced it and the row index
\* stays within the supplied matrix.
C19_ScoresFromPrecedingStep ==
    (policy = "decoded" /\ ncallers >= 2) =>
        \A c \in Callers :
            (AfterActions(c) /\ out[c].emitted /\ LastStepReturnedOutputs(c))
                => RowsFromOwnFeatures(c)

\* C19 as the code has it: the mutex serializes the steps but does not pair
\* them; the rows match when the immediately preceding step was made by the
\* same caller (or there was none).
C19_ScoresFromOwnPrecedingStep ==
    (policy = "decoded" /\ ncallers >= 2) =>
        \A c \in Callers :
            (AfterActions(c) /\ last_step \in {0, c}
                             /\ LastStepReturnedOutputs(c))
                => RowsFromOwnFeatures(c)

\* With two callers, caller 2 makes two steps in a row after caller 1 has
\* made one: its second action pass reads the row of its own last output.
C19_Witness ==
    /\ policy = "decoded"
    /\ ncallers >= 2
    /\ out[1].emitted
    /\ last_step = 2
    /\ pc[2] = "advance"
    /\ Len(performed) = 1
    /\ Len(out[2].features) = 1
    /\ performed[1].state = out[2].features[1].st

\* ---- C20 ----------------------------------------------------------------
\* How many times sentence k is among the documents of the last finished
\* traversal.
TimesEmitted(k) ==
    Cardinality({j \in 1..Len(prev_docs) : prev_docs[j] = k})

\* The scored tokens of corpus sentence k.
ScoredTokensOf(k) ==
    Cardinality({t \in 1..Len(corpus[k].scored) : corpus[k].scored[t]})

\* A traversal of the corpus by a DecodedParseReader has finished.
TraversalFinished == policy = "decoded" /\ prev_docs # NoTraversal

\* C20: under the decoded policy every corpus sentence is emitted in the
\* annotated-documents output exactly once per traversal, and its scored
\* tokens are counted exactly once per traversal, also the sentences whose
\* initial state is already final.
C20_EverySentenceOncePerTraversal ==
    TraversalFinished =>
        /\ \A k \in 1..Len(corpus) : TimesEmitted(k) = 1
        /\ prev_tokens = SumSeq([k \in 1..Len(corpus) |-> ScoredTokensOf(k)])

\* The same for the sentences whose initial state is not final only, those
\* the advance pass does not skip.
NonFinalSentencesOncePerTraversal ==
    TraversalFinished =>
        /\ \A k \in 1..Len(corpus) :
              TimesEmitted(k) = IF InitiallyFinal(k) THEN 0 ELSE 1
        /\ prev_tokens
              = SumSeq([k \in 1..Len(corpus) |->
                          IF InitiallyFinal(k) THEN 0 ELSE ScoredTokensOf(k)])

\* ---- C21 ----------------------------------------------------------------
\* Some caller can take its next step of Compute.
CanProceed == \E c \in Callers : pc[c] # "aborted" /\ ENABLED Next

\* C21: for a non-empty finite corpus, an extractor that returns every
\* feature group at its declared size and outputs that can all be
\* allocated, every step runs to its end and, as
\* long as the epoch counter is below the bound of the model, another step
\* can be taken: no run stops with a sentence that never reaches a final
\* state or with the epoch counter stuck.
C21_StepsAlwaysProgress ==
    (extracted = NoMismatch /\ alloc_failures = 0) =>
        /\ \A c \in Callers : pc[c] # "aborted"
        /\ ~failed
        /\ num_epochs_ < MaxEpochs => CanProceed

\* ---- C22 ----------------------------------------------------------------
\* Caller c runs the output part of its step.
OutputStep(c) == pc[c] = "output" /\ pc'[c] # "output"

\* C22: if in the feature loop of a step the extractor returns, for some
\* occupied slot and some feature group, a number of features other than
\* FeatureSize(group), the step aborts the process: none of the step's
\* outputs is produced, nothing is truncated or padded, and no later step
\* runs.  A step whose extractions all have the declared sizes returns and
\* releases mu_, with its outputs or, when an output could not be
\* allocated, with an error status and the caller's outputs as they were.
C22_MismatchIsFatal ==
    [][ /\ \A c \in Callers : OutputStep(c) =>
              IF \E r \in 1..BatchSize(sentences_) : \E g \in FeatureGroups :
                     ExtractedSize(extracted', r, g) # FeatureSize(g)
              THEN /\ failed'
                   /\ pc'[c] = "check_failed"
                   /\ out' = out
                   /\ documents_' = documents_
                   /\ last_step' = last_step
                   /\ mu_' = c
              ELSE /\ ~failed'
                   /\ pc'[c] = "idle"
                   /\ last_step' = c
                   /\ mu_' = 0
                   /\ IF status'[c] = "ok"
                      THEN /\ out'[c].emitted
                           /\ out'[c].nrows = BatchSize(sentences_)
                      ELSE out' = out
        /\ failed => UNCHANGED vars
      ]_vars

\* The second row's group 1 came back with one feature too many: the
\* process has aborted and caller 1 still has the output of the step before.
C22_Witness ==
    /\ failed
    /\ pc[1] = "check_failed"
    /\ extracted.row = 2
    /\ extracted.group = 1
    /\ extracted.size = FeatureSize(1) + 1
    /\ out[1].emitted
    /\ out[1].features # FeatureRows(states_, workspaces_, 0, max_batch_size_)

====
